---- MODULE Spec2Model ----
(***************************************************************************)
(* The rate-limited send pipeline of cold_mailer: the sent-mail ledger and *)
(* rate limiter (rate_limiter.py), the per-contact dispatcher              *)
(* Mailer.send_email and the bulk loop Mailer.send_to_all_pending          *)
(* (mailer.py), the contact store operations they call                     *)
(* (recruiter_manager.py), and the web process around them: the bulk       *)
(* worker and the requests of web/routes, and the progress sessions and    *)
(* streams of web/sse.py.                                                  *)
(*                                                                         *)
(* Time is an integer number of ticks.  One hour is HourLen ticks and one  *)
(* calendar day is DayLen ticks, so datetime.date() is division by DayLen. *)
(* Contacts are identified by their id; Email(id) is the contact's address.*)
(***************************************************************************)
EXTENDS Integers, Sequences, FiniteSets, TLC

\* ------------------------------------------------------------------ bounds
NumContacts == 3
MaxLimit == 2
MaxDelay == 1
MaxTicks == 2
MaxInitLedger == 1
MaxT == 4
MaxCanLedger == 3
MaxPolls == 3
MaxRequests == 1

\* --------------------------------------------------- time scale of the model
HourLen == 2
DayLen == 4
\* The clock starts in the middle of day 0 and may run into day 1.
NowStart == 2
MaxNow == NowStart + MaxTicks

ContactIds == 1..NumContacts
\* The id of a Recruiter object a caller still holds after its contact was
\* deleted from the contact file.
StaleId == NumContacts + 1
Statuses == {"pending", "sent", "replied", "bounced"}
TemplateStates == {"ok", "missing", "bad"}
SmtpOutcomes == {"ok", "auth", "refused", "smtp", "other"}
None == <<"None">>

VARIABLES
  now,                   \* datetime.now()
  hourly_limit,          \* config.app.rate_limit.emails_per_hour
  daily_limit,           \* config.app.rate_limit.max_emails_per_day
  delay_between_emails,  \* config.app.rate_limit.delay_between_emails
  credentials,           \* gmail_email and gmail_app_password are both set
  sentFile,              \* data/sent_log.json: the persisted ledger
  sent_emails,           \* RateLimiter._sent_emails
  rl_loaded,             \* RateLimiter._loaded
  storeFile,             \* data/recruiters.{csv,json}: id -> contact
  recruiters,            \* RecruiterManager._recruiters of the Mailer
  rm_loaded,             \* RecruiterManager._loaded of the Mailer
  ret,                   \* outcome of the send_email call made by the last step
  bulk,                  \* the send_to_all_pending call in progress
  sessions,              \* sse._sessions: session id -> BulkSendSession
  worker,                \* the _run_bulk_send task of the executor: its locals
  streams,               \* the stream_progress generators of the observers
  requests,              \* how many other web requests have been served
  worker2,               \* a second _run_bulk_send task and its Mailer's objects
  log                    \* the messages the server accepted from the web process
                         \* and the clear_history calls, in order

vars == <<now, hourly_limit, daily_limit, delay_between_emails, credentials,
          sentFile, sent_emails, rl_loaded, storeFile, recruiters, rm_loaded,
          ret, bulk, sessions, worker, streams, requests, worker2, log>>

web == <<sessions, worker, streams, requests, worker2, log>>

config == <<hourly_limit, daily_limit, delay_between_emails, credentials>>

\* ------------------------------------------------------------ small helpers
Email(id) == <<"email", id>>
Subject(id) == <<"subject", id>>
\* The template_name every call of the model passes.
TemplateName == <<"template">>

Min(a, b) == IF a < b THEN a ELSE b

Max(a, b) == IF a > b THEN a ELSE b

RECURSIVE SortedIds(_)
SortedIds(S) ==
  IF S = {} THEN <<>>
  ELSE LET m == CHOOSE x \in S : \A y \in S : x <= y
       IN <<m>> \o SortedIds(S \ {m})

\* ------------------------------------------------------------- rate limiter
DateOf(ts) == ts \div DayLen

_get_emails_in_window(led, t, window) ==
  SelectSeq(led, LAMBDA e : e.timestamp > t - window)

get_emails_last_hour(led, t) == Len(_get_emails_in_window(led, t, HourLen))

get_emails_today(led, t) ==
  Len(SelectSeq(led, LAMBDA e : DateOf(e.timestamp) = DateOf(t)))

\* A plausible slip: a limit counts as reached only once it is exceeded.
can_send_off_by_one(led, t, hl, dl) ==
  LET emails_last_hour == get_emails_last_hour(led, t)
      emails_today == get_emails_today(led, t)
  IN IF emails_today > dl
       THEN [ok |-> FALSE, reason |-> <<"Daily limit reached", emails_today, dl>>]
     ELSE IF emails_last_hour > hl
       THEN [ok |-> FALSE, reason |-> <<"Hourly limit reached", emails_last_hour, hl>>]
     ELSE [ok |-> TRUE, reason |-> <<"OK">>]

can_send_hourly_first(led, t, hl, dl) ==
  LET emails_last_hour == get_emails_last_hour(led, t)
      emails_today == get_emails_today(led, t)
  IN IF emails_last_hour >= hl
       THEN [ok |-> FALSE, reason |-> <<"Hourly limit reached", emails_last_hour, hl>>]
     ELSE IF emails_today >= dl
       THEN [ok |-> FALSE, reason |-> <<"Daily limit reached", emails_today, dl>>]
     ELSE [ok |-> TRUE, reason |-> <<"OK">>]

can_send(led, t, hl, dl) ==
  LET emails_last_hour == get_emails_last_hour(led, t)
      emails_today == get_emails_today(led, t)
  IN IF emails_today >= dl
       THEN [ok |-> FALSE, reason |-> <<"Daily limit reached", emails_today, dl>>]
     ELSE IF emails_last_hour >= hl
       THEN [ok |-> FALSE, reason |-> <<"Hourly limit reached", emails_last_hour, hl>>]
     ELSE [ok |-> TRUE, reason |-> <<"OK">>]

\* min(...) over the timestamps of the records in the window.
OldestIn(win) ==
  CHOOSE ts \in {win[k].timestamp : k \in 1..Len(win)} :
    \A k \in 1..Len(win) : ts <= win[k].timestamp

\* A plausible slip: the hourly limit is tested before the daily limit.
get_wait_time_hourly_first(led, t, hl, dl) ==
  IF get_emails_last_hour(led, t) >= hl
    THEN LET win == _get_emails_in_window(led, t, HourLen)
             oldest_in_window == IF win = <<>> THEN t ELSE OldestIn(win)
         IN Max(0, (oldest_in_window + HourLen) - t)
  ELSE IF get_emails_today(led, t) >= dl
    THEN (DateOf(t) * DayLen + DayLen) - t
  ELSE 0

\* get_wait_time: tomorrow is today's midnight plus one day; min(...,
\* default=datetime.now()) is the clock when the window is empty.
get_wait_time(led, t, hl, dl) ==
  IF get_emails_today(led, t) >= dl
    THEN (DateOf(t) * DayLen + DayLen) - t
  ELSE IF get_emails_last_hour(led, t) >= hl
    THEN LET win == _get_emails_in_window(led, t, HourLen)
             oldest_in_window == IF win = <<>> THEN t ELSE OldestIn(win)
         IN Max(0, (oldest_in_window + HourLen) - t)
  ELSE 0

SentRecord(t, id) ==
  [timestamp |-> t, recruiter_id |-> id, email |-> Email(id),
   template |-> TemplateName, subject |-> Subject(id)]

\* record_sent: append one record, then rewrite the whole file.  When the
\* write raises, the record stays in the in-memory list.
\* _ensure_loaded / _load_sent_log
rl_ensure_loaded(s) ==
  IF s.loaded THEN s ELSE [s EXCEPT !.led = s.file, !.loaded = TRUE]

\* A plausible slip: the append is undone when the write fails.
record_sent_rollback(s, t, id, ledIO) ==
  LET s1 == rl_ensure_loaded(s)
      appended == Append(s1.led, SentRecord(t, id))
  IN IF ledIO THEN [s1 EXCEPT !.led = appended, !.file = appended] ELSE s1

\* A plausible slip: the file is written before the record is appended.
record_sent_save_first(s, t, id, ledIO) ==
  LET s1 == rl_ensure_loaded(s)
      appended == Append(s1.led, SentRecord(t, id))
  IN [s1 EXCEPT !.led = appended,
                !.file = IF ledIO THEN s1.led ELSE s1.file]

\* json.dump writes the list of records, whose values are all strings, and
\* json.load reads an equal list back: the file is modelled by the list it
\* holds.
record_sent(s, t, id, ledIO) ==
  LET s1 == rl_ensure_loaded(s)
      appended == Append(s1.led, SentRecord(t, id))
  IN [s1 EXCEPT !.led = appended,
                !.file = IF ledIO THEN appended ELSE s1.file]

\* ------------------------------------------------------------ contact store
Contact(st, lc) == [status |-> st, last_contacted |-> lc]

\* RecruiterManager._ensure_loaded / load
rm_ensure_loaded(s) ==
  IF s.rloaded THEN s ELSE [s EXCEPT !.recs = s.store, !.rloaded = TRUE]

\* get_pending: the pending contacts in the order of the dict, which is the
\* order of the file, which save() writes sorted by id.
get_pending(recs) ==
  SortedIds({id \in DOMAIN recs : recs[id].status = "pending"})

\* mark_sent -> update(id, status="sent", last_contacted=now): found is FALSE
\* when get_by_id raises; the attributes are set in memory before save(), so
\* they stay set when save() raises.
mark_sent(s, id, t, stIO) ==
  LET s1 == rm_ensure_loaded(s)
  IN IF id \notin DOMAIN s1.recs
       THEN [st |-> s1, found |-> FALSE, saved |-> FALSE]
     ELSE LET recs2 == [s1.recs EXCEPT ![id] = Contact("sent", t)]
          IN [st |-> [s1 EXCEPT !.recs = recs2,
                                !.store = IF stIO THEN recs2 ELSE s1.store],
              found |-> TRUE, saved |-> stIO]

\* --------------------------------------------------------------- dispatcher
\* A call's outcome: the object state st after it, the returned pair
\* (ok, msg) or the raised exception exc with its message msg, and the SMTP
\* transmissions attempted, in order.
Returned(st, msg, att) ==
  [st |-> st, ok |-> TRUE, exc |-> "none", msg |-> msg, attempts |-> att]

Raised(st, exc, msg, att) ==
  [st |-> st, ok |-> FALSE, exc |-> exc, msg |-> msg, attempts |-> att]

\* A plausible slip: a refused recipient falls through to the SMTPException
\* clause.
SmtpFailure_no_refused(st, id, smtp, att) ==
  CASE smtp = "auth" ->
         Raised(st, "SMTPConnectionError", <<"Authentication failed">>, att)
    [] smtp \in {"refused", "smtp"} ->
         Raised(st, "EmailError", <<"SMTP error">>, att)
    [] OTHER ->
         Raised(st, "EmailError", <<"Failed to send email", "transport">>, att)

\* The except clauses of send_email, by what the SMTP session raised.
SmtpFailure(st, id, smtp, att) ==
  CASE smtp = "auth" ->
         Raised(st, "SMTPConnectionError", <<"Authentication failed">>, att)
    [] smtp = "refused" ->
         Raised(st, "EmailError", <<"Recipient refused", Email(id)>>, att)
    [] smtp = "smtp" ->
         Raised(st, "EmailError", <<"SMTP error">>, att)
    [] OTHER ->
         Raised(st, "EmailError", <<"Failed to send email", "transport">>, att)

\* A plausible slip: the ledger record is written before the SMTP session.
Transmit_record_first(s, id, t, io) ==
  LET att == <<[to |-> Email(id), outcome |-> io.smtp]>>
      s2 == record_sent(s, t, id, io.ledIO)
  IN IF io.smtp # "ok" THEN SmtpFailure(s2, id, io.smtp, att)
     ELSE IF ~io.ledIO
       THEN Raised(s2, "EmailError", <<"Failed to send email", "sent_log">>, att)
     ELSE LET m == mark_sent(s2, id, t, io.stIO)
          IN IF ~m.found
               THEN Raised(m.st, "EmailError", <<"Failed to send email", "not found">>, att)
             ELSE IF ~m.saved
               THEN Raised(m.st, "EmailError", <<"Failed to send email", "store">>, att)
             ELSE Returned(m.st, <<"Email sent successfully", Email(id)>>, att)

\* The try block of send_email: one SMTP session, then record_sent, then
\* mark_sent; whatever is raised inside is re-raised as an EmailError.
Transmit(s, id, t, io) ==
  LET att == <<[to |-> Email(id), outcome |-> io.smtp]>>
  IN IF io.smtp # "ok" THEN SmtpFailure(s, id, io.smtp, att)
     ELSE LET s2 == record_sent(s, t, id, io.ledIO)
          IN IF ~io.ledIO
               THEN Raised(s2, "EmailError", <<"Failed to send email", "sent_log">>, att)
             ELSE LET m == mark_sent(s2, id, t, io.stIO)
                  IN IF ~m.found
                       THEN Raised(m.st, "EmailError",
                                   <<"Failed to send email", "not found">>, att)
                     ELSE IF ~m.saved
                       THEN Raised(m.st, "EmailError",
                                   <<"Failed to send email", "store">>, att)
                     ELSE Returned(m.st, <<"Email sent successfully", Email(id)>>, att)

\* TemplateEngine.render for a template that is missing, or exists and fails
\* to render, or renders.
render(tmpl) ==
  CASE tmpl = "missing" -> [ok |-> FALSE, msg |-> <<"Template not found">>]
    [] tmpl = "bad" -> [ok |-> FALSE, msg |-> <<"Error rendering template">>]
    [] OTHER -> [ok |-> TRUE, msg |-> <<"rendered">>]

\* A plausible slip: the hard gate leaves one send of each quota unused.
check_rate_limit_strict(led, t, cfg) ==
  LET c == can_send(led, t, cfg.hl - 1, cfg.dl - 1)
  IN [ok |-> c.ok, msg |-> <<"Rate limit exceeded", c.reason>>]

\* check_rate_limit
check_rate_limit(led, t, cfg) ==
  LET c == can_send(led, t, cfg.hl, cfg.dl)
  IN [ok |-> c.ok, msg |-> <<"Rate limit exceeded", c.reason>>]

\* A plausible slip: the template is rendered before the rate limit is checked.
send_email_render_first(s, cfg, t, id, dry, io) ==
  LET s1 == rl_ensure_loaded(s)
      gate == check_rate_limit(s1.led, t, cfg)
      r == render(io.tmpl)
  IN IF ~r.ok THEN Raised(s, "TemplateError", r.msg, <<>>)
     ELSE IF ~gate.ok THEN Raised(s1, "RateLimitError", gate.msg, <<>>)
     ELSE IF dry
       THEN Returned(s1, <<"DRY RUN - Would send", Email(id), Subject(id)>>, <<>>)
     ELSE IF ~cfg.creds
       THEN Raised(s1, "EmailError", <<"Gmail credentials not configured">>, <<>>)
     ELSE Transmit(s1, id, t, io)

\* A plausible slip: the dry_run test is missing.
send_email_no_dry_run(s, cfg, t, id, dry, io) ==
  LET s1 == rl_ensure_loaded(s)
      gate == check_rate_limit(s1.led, t, cfg)
      r == render(io.tmpl)
  IN IF ~gate.ok THEN Raised(s1, "RateLimitError", gate.msg, <<>>)
     ELSE IF ~r.ok THEN Raised(s1, "TemplateError", r.msg, <<>>)
     ELSE IF ~cfg.creds
       THEN Raised(s1, "EmailError", <<"Gmail credentials not configured">>, <<>>)
     ELSE Transmit(s1, id, t, io)

\* A plausible slip: a dry run also needs the credentials.
send_email_creds_first(s, cfg, t, id, dry, io) ==
  LET s1 == rl_ensure_loaded(s)
      gate == check_rate_limit(s1.led, t, cfg)
      r == render(io.tmpl)
  IN IF ~gate.ok THEN Raised(s1, "RateLimitError", gate.msg, <<>>)
     ELSE IF ~r.ok THEN Raised(s1, "TemplateError", r.msg, <<>>)
     ELSE IF ~cfg.creds
       THEN Raised(s1, "EmailError", <<"Gmail credentials not configured">>, <<>>)
     ELSE IF dry
       THEN Returned(s1, <<"DRY RUN - Would send", Email(id), Subject(id)>>, <<>>)
     ELSE Transmit(s1, id, t, io)

\* Mailer.send_email(recruiter, template_name, dry_run=dry) at time t, where
\* io is what the environment does during the call: the state of the
\* template, the outcome of the SMTP session, and whether the writes of the
\* ledger file and of the contact file complete.
send_email(s, cfg, t, id, dry, io) ==
  LET s1 == rl_ensure_loaded(s)
      gate == check_rate_limit(s1.led, t, cfg)
      r == render(io.tmpl)
  IN IF ~gate.ok THEN Raised(s1, "RateLimitError", gate.msg, <<>>)
     ELSE IF ~r.ok THEN Raised(s1, "TemplateError", r.msg, <<>>)
     ELSE IF dry
       THEN Returned(s1, <<"DRY RUN - Would send", Email(id), Subject(id)>>, <<>>)
     ELSE IF ~cfg.creds
       THEN Raised(s1, "EmailError", <<"Gmail credentials not configured">>, <<>>)
     ELSE Transmit(s1, id, t, io)

\* ------------------------------------------------------------- the objects
\* The Mailer's RateLimiter and RecruiterManager and the two files they
\* read and rewrite, as one record.
World ==
  [led |-> sent_emails, loaded |-> rl_loaded, file |-> sentFile,
   recs |-> recruiters, rloaded |-> rm_loaded, store |-> storeFile]

SetWorld(s) ==
  /\ sent_emails' = s.led
  /\ rl_loaded' = s.loaded
  /\ sentFile' = s.file
  /\ recruiters' = s.recs
  /\ rm_loaded' = s.rloaded
  /\ storeFile' = s.store

Cfg == [hl |-> hourly_limit, dl |-> daily_limit, creds |-> credentials]

\* What a query of the ledger / of the contacts answers: the list in memory
\* once loaded, the file's contents before the first access.
Ledger(s) == IF s.loaded THEN s.led ELSE s.file

Contacts(s) == IF s.rloaded THEN s.recs ELSE s.store

Snapshot(s) ==
  [ledger |-> Ledger(s), file |-> s.file, contacts |-> Contacts(s), store |-> s.store]

\* What the environment does during one call.  A later step is only reached
\* when the earlier ones went well, so one failure per call covers every
\* outcome.
IO ==
  {io \in [tmpl : TemplateStates, smtp : SmtpOutcomes, ledIO : BOOLEAN, stIO : BOOLEAN] :
     /\ io.tmpl # "ok" => io.smtp = "ok" /\ io.ledIO /\ io.stIO
     /\ io.smtp # "ok" => io.ledIO /\ io.stIO
     /\ ~io.ledIO => io.stIO}

NoRet == [op |-> "none"]

\* The record of one send_email call: its arguments, the state before it,
\* what can_send answered at the call, and its outcome.
CallRecord(s, id, dry, io, out, inBulk) ==
  [op |-> "send_email", id |-> id, dry |-> dry, at |-> now, io |-> io,
   inBulk |-> inBulk,
   gate |-> can_send(Ledger(s), now, hourly_limit, daily_limit),
   pre |-> Snapshot(s),
   ok |-> out.ok, exc |-> out.exc, msg |-> out.msg, attempts |-> out.attempts]

\* ---------------------------------------------------------------- bulk loop
Results0(n) == [total |-> n, sent |-> 0, failed |-> 0, skipped |-> 0, errors |-> <<>>]

BulkIdle ==
  [pc |-> "idle", pending |-> <<>>, i |-> 0, dry_run |-> FALSE,
   results |-> Results0(0), trace |-> <<>>, pre |-> None, aged |-> FALSE, q0 |-> 0]

\* The quota left: how many more sends can_send allows at time t.
Quota(led, t, hl, dl) ==
  Max(0, Min(hl - get_emails_last_hour(led, t), dl - get_emails_today(led, t)))

\* Lines 196-202: the contact is skipped.
Skipped(res, id, reason) ==
  [res EXCEPT !.skipped = @ + 1,
              !.errors = Append(@, [email |-> Email(id),
                                    error |-> <<"Rate limit", reason>>])]

\* A plausible slip: a failure is counted and not logged.
Tally_no_entry(res, id, out) ==
  IF out.ok THEN [res EXCEPT !.sent = @ + 1]
  ELSE [res EXCEPT !.failed = @ + 1]

\* Lines 204-224: the outcome of send_email is counted; str(e) is the message.
Tally(res, id, out) ==
  IF out.ok THEN [res EXCEPT !.sent = @ + 1]
  ELSE [res EXCEPT !.failed = @ + 1,
                   !.errors = Append(@, [email |-> Email(id), error |-> out.msg])]

\* Line 226: a delay follows a dispatched contact that is not the last.
NeedsDelay(dry, i, n) == ~dry /\ i < n - 1

\* A plausible slip: a failed contact ends the loop.
AfterDispatch_abort(b, out) ==
  IF ~out.ok THEN [b EXCEPT !.pc = "done"]
  ELSE IF NeedsDelay(b.dry_run, b.i, Len(b.pending)) THEN [b EXCEPT !.pc = "delay"]
  ELSE [b EXCEPT !.i = @ + 1,
                 !.pc = IF b.i + 1 < Len(b.pending) THEN "loop" ELSE "done"]

\* Where the loop goes after a dispatched contact.
AfterDispatch(b, out) ==
  IF NeedsDelay(b.dry_run, b.i, Len(b.pending)) THEN [b EXCEPT !.pc = "delay"]
  ELSE [b EXCEPT !.i = @ + 1,
                 !.pc = IF b.i + 1 < Len(b.pending) THEN "loop" ELSE "done"]

\* A plausible slip: a skipped contact is followed by the delay as well.
AfterSkip_delay(b) ==
  IF NeedsDelay(b.dry_run, b.i, Len(b.pending)) THEN [b EXCEPT !.pc = "delay"]
  ELSE [b EXCEPT !.i = @ + 1,
                 !.pc = IF b.i + 1 < Len(b.pending) THEN "loop" ELSE "done"]

\* continue: the next contact, without delay.
AfterSkip(b) ==
  [b EXCEPT !.i = @ + 1,
            !.pc = IF b.i + 1 < Len(b.pending) THEN "loop" ELSE "done"]

AttemptEvents(att) == [k \in 1..Len(att) |-> <<"smtp", att[k].to, att[k].outcome>>]

\* Whether moving the clock from t to t2 takes a record out of a window.
AgesOut(led, t, t2) ==
  \/ get_emails_last_hour(led, t2) < get_emails_last_hour(led, t)
  \/ get_emails_today(led, t2) < get_emails_today(led, t)

\* ------------------------------------------------- bulk sessions (sse.py)
\* The id create_session gives the session, and an id no session has.
SessionId == "session"
UnknownSessionId == "unknown"
Streams == {"stream"}

\* _sessions = {}
NoSessions == <<>>

\* BulkSendSession(session_id, total) with its defaults; "" is <<>>.
BulkSendSession(sid, total) ==
  [session_id |-> sid, total |-> total, current |-> 0, current_email |-> <<>>,
   status |-> "pending", sent |-> 0, failed |-> 0, skipped |-> 0, errors |-> <<>>]

\* A plausible slip: the fields that are not passed are reset to their defaults.
update_session_reset(ss, sid, fields) ==
  IF sid \notin DOMAIN ss THEN ss
  ELSE LET old == ss[sid]
           fresh == BulkSendSession(old.session_id, old.total)
           set == [k \in DOMAIN old |->
                     IF k \in DOMAIN fields THEN fields[k]
                     ELSE IF k = "errors" THEN old[k] ELSE fresh[k]]
       IN [ss EXCEPT ![sid] =
             IF "error" \in DOMAIN fields
               THEN [set EXCEPT !.errors = Append(@, fields.error)]
             ELSE set]

\* update_session(session_id, **fields): the fields passed are replaced, an
\* error is appended; an unknown id changes nothing.
update_session(ss, sid, fields) ==
  IF sid \notin DOMAIN ss THEN ss
  ELSE LET old == ss[sid]
           set == [k \in DOMAIN old |-> IF k \in DOMAIN fields THEN fields[k] ELSE old[k]]
       IN [ss EXCEPT ![sid] =
             IF "error" \in DOMAIN fields
               THEN [set EXCEPT !.errors = Append(@, fields.error)]
             ELSE set]

\* The _run_bulk_send task: not submitted; and its locals once submitted,
\* with the trace of what it did.
NoWorker ==
  [pc |-> "none", session_id |-> UnknownSessionId, dry_run |-> FALSE, pending |-> <<>>,
   i |-> 0, sent |-> 0, failed |-> 0, skipped |-> 0, trace |-> <<>>]

\* The contacts a session or snapshot reports as processed.
Processed(x) == x.sent + x.failed + x.skipped

\* A stream_progress generator: not requested; the part of to_dict it has
\* read; the last event it yielded, how many it yielded, the values of
\* sent + failed + skipped and the number of completed snapshots among them,
\* and the value of sent + failed + skipped when it was requested.
NoEvent == [none |-> TRUE]

StreamClosed ==
  [pc |-> "closed", session_id |-> UnknownSessionId, half |-> NoEvent, last |-> NoEvent,
   n |-> 0, seen |-> {}, completed |-> 0, opened_at |-> 0]

\* The second task of the executor (ThreadPoolExecutor(max_workers=2)): its
\* locals, and the RateLimiter and RecruiterManager of the Mailer its request
\* created.
SessionId2 == "session2"

NoWorker2 ==
  [pc |-> "none", session_id |-> UnknownSessionId, dry_run |-> FALSE, pending |-> <<>>,
   i |-> 0, sent |-> 0, failed |-> 0, skipped |-> 0, trace |-> <<>>,
   led |-> <<>>, loaded |-> FALSE, recs |-> <<>>, rloaded |-> FALSE]

\* The events of a task's trace and of the log.  op is the operation: "bulk"
\* and "bulk2" are the tasks of the executor, "single" is a POST /send request.
\* _run_bulk_send took its snapshot of the pending contacts.
Started(op, s, pending, dry, t) ==
  [kind |-> "get_pending", op |-> op, pre |-> s, pending |-> pending, dry_run |-> dry,
   at |-> t]

\* rate_limiter.can_send() answered.
Checked(op, id, c) == [kind |-> "can_send", op |-> op, id |-> id, ok |-> c.ok]

\* mailer.send_email was called.
Dispatched(op, id, io) == [kind |-> "send_email", op |-> op, id |-> id, io |-> io]

\* server.send_message returned: the message is on its way.
Accepted(op, id, t, att) ==
  IF \E k \in 1..Len(att) : att[k].outcome = "ok"
    THEN <<[kind |-> "smtp", op |-> op, id |-> id, at |-> t]>>
  ELSE <<>>

\* wait_for_delay returned.
Delayed(op, d) == [kind |-> "delay", op |-> op, d |-> d]

\* clear_history returned.
Cleared == [kind |-> "clear_history", op |-> "settings"]

\* ------------------------------------- send_to_all_pending as a function
\* The for loop of send_to_all_pending, lines 191-227, from contact b.i on:
\* b holds the Mailer's objects st, the clock at, the summary and the trace
\* of the can_send checks, dispatches and delays so far; ios[k] is what
\* the environment does during the dispatch of the k-th pending contact.
RECURSIVE SendLoop(_, _, _, _, _)
SendLoop(b, cfg, delay, dry, ios) ==
  IF b.i >= Len(b.pending) THEN b
  ELSE LET id == b.pending[b.i + 1]
           s1 == rl_ensure_loaded(b.st)
           c == can_send(s1.led, b.at, cfg.hl, cfg.dl)
       IN IF ~c.ok
            THEN SendLoop([b EXCEPT !.st = s1, !.i = @ + 1,
                                    !.results = Skipped(@, id, c.reason),
                                    !.trace = Append(@, Checked("library", id, c))],
                          cfg, delay, dry, ios)
          ELSE LET out == send_email(s1, cfg, b.at, id, dry, ios[b.i + 1])
                   wait == NeedsDelay(dry, b.i, Len(b.pending))
               IN SendLoop([b EXCEPT
                              !.st = out.st, !.i = @ + 1,
                              !.at = IF wait THEN @ + delay ELSE @,
                              !.results = Tally(@, id, out),
                              !.trace = @ \o <<Checked("library", id, c),
                                               Dispatched("library", id, ios[b.i + 1])>>
                                          \o (IF wait THEN <<Delayed("library", delay)>>
                                              ELSE <<>>)],
                           cfg, delay, dry, ios)

\* Mailer.send_to_all_pending(template_name, dry_run=dry) on a Mailer with
\* objects s at time t: the summary it returns, with what it did.
send_to_all_pending(s, cfg, delay, t, dry, ios) ==
  LET s1 == rm_ensure_loaded(s)
      pending == get_pending(s1.recs)
  IN SendLoop([st |-> s1, at |-> t, pending |-> pending, i |-> 0,
               results |-> Results0(Len(pending)), trace |-> <<>>],
              cfg, delay, dry, ios)

\* ------------------------------------------------------------------ actions
\* The ledgers a data directory may hold when the Mailer starts: records of
\* earlier sends (to contacts deleted since), oldest first, none later than
\* the clock.
RECURSIVE StampSeqs(_)
StampSeqs(n) ==
  IF n = 0 THEN {<<>>}
  ELSE LET shorter == StampSeqs(n - 1)
       IN shorter \cup
          {Append(q, SentRecord(t, StaleId)) :
             q \in {x \in shorter : Len(x) = n - 1},
             t \in (NowStart - DayLen + 1)..NowStart}

InitLedgers ==
  {q \in StampSeqs(MaxInitLedger) :
     \A k \in 1..(Len(q) - 1) : q[k].timestamp <= q[k + 1].timestamp}

\* Mailer.__init__ on a data directory: nothing is loaded; the contact file
\* holds the contacts, some of them no longer pending.
Init ==
  /\ now = NowStart
  /\ hourly_limit \in 1..MaxLimit
  /\ daily_limit \in 1..MaxLimit
  /\ delay_between_emails \in 0..MaxDelay
  /\ credentials \in BOOLEAN
  /\ sentFile \in InitLedgers
  /\ sent_emails = <<>>
  /\ rl_loaded = FALSE
  /\ \E replied \in SUBSET ContactIds :
       storeFile = [id \in ContactIds |->
                      IF id \in replied THEN Contact("replied", None)
                      ELSE Contact("pending", None)]
  /\ recruiters = <<>>
  /\ rm_loaded = FALSE
  /\ ret = NoRet
  /\ bulk = BulkIdle
  /\ sessions = NoSessions
  /\ worker = NoWorker
  /\ streams = [st \in Streams |-> StreamClosed]
  /\ requests = 0
  /\ worker2 = NoWorker2
  /\ log = <<>>

\* A caller's single Mailer.send_email(recruiter, template, dry_run=dry) for
\* a Recruiter object the caller holds.
SendOne(id, dry, io) ==
  /\ bulk.pc = "idle"
  /\ LET out == send_email(World, Cfg, now, id, dry, io)
     IN /\ SetWorld(out.st)
        /\ ret' = CallRecord(World, id, dry, io, out, FALSE)
  /\ bulk' = [bulk EXCEPT !.pc = "returned"]
  /\ UNCHANGED <<now, config, web>>

\* send_to_all_pending, lines 178-189: the snapshot of the pending contacts
\* and the empty summary.
BulkStart(dry) ==
  /\ bulk.pc = "idle"
  /\ LET s1 == rm_ensure_loaded(World)
         pending == get_pending(s1.recs)
     IN /\ SetWorld(s1)
        /\ bulk' = [pc |-> IF pending = <<>> THEN "done" ELSE "loop",
                    pending |-> pending, i |-> 0, dry_run |-> dry,
                    results |-> Results0(Len(pending)), trace |-> <<>>,
                    pre |-> Snapshot(s1), aged |-> FALSE,
                    q0 |-> Quota(Ledger(s1), now, hourly_limit, daily_limit)]
  /\ ret' = NoRet
  /\ UNCHANGED <<now, config, web>>

\* One pass of the loop body, lines 191-226: the progress callback, the
\* can_send test, and either the skip or the dispatch and its count.
BulkStep(io) ==
  /\ bulk.pc = "loop"
  /\ LET id == bulk.pending[bulk.i + 1]
         progress == <<"progress", bulk.i + 1, Len(bulk.pending), id>>
         s1 == rl_ensure_loaded(World)
         c == can_send(s1.led, now, hourly_limit, daily_limit)
     IN IF ~c.ok
          THEN /\ SetWorld(s1)
               /\ ret' = NoRet
               /\ bulk' = [AfterSkip(bulk) EXCEPT
                             !.results = Skipped(@, id, c.reason),
                             !.trace = @ \o <<progress, <<"skip", id, c.reason>>>>]
        ELSE LET out == send_email(s1, Cfg, now, id, bulk.dry_run, io)
             IN /\ SetWorld(out.st)
                /\ ret' = CallRecord(s1, id, bulk.dry_run, io, out, TRUE)
                /\ bulk' = [AfterDispatch(bulk, out) EXCEPT
                              !.results = Tally(@, id, out),
                              !.trace = @ \o <<progress, <<"send_email", id>>>>
                                          \o AttemptEvents(out.attempts)
                                          \o <<<<"outcome", id, out.exc, out.msg>>>>]
  /\ UNCHANGED <<now, config, web>>

\* wait_for_delay, then the next contact: time.sleep(delay) when delay > 0.
BulkDelay ==
  /\ bulk.pc = "delay"
  /\ now + delay_between_emails <= MaxNow
  /\ now' = now + delay_between_emails
  /\ bulk' = [bulk EXCEPT !.pc = "loop", !.i = @ + 1,
                          !.trace = Append(@, <<"delay", delay_between_emails>>),
                          !.aged = @ \/ AgesOut(Ledger(World), now, now')]
  /\ ret' = NoRet
  /\ UNCHANGED <<config, sentFile, sent_emails, rl_loaded, storeFile, recruiters,
                 rm_loaded, web>>

\* Line 229: the summary is returned to the caller.
BulkReturn ==
  /\ bulk.pc = "done"
  /\ bulk' = [bulk EXCEPT !.pc = "returned"]
  /\ ret' = NoRet
  /\ UNCHANGED <<now, config, sentFile, sent_emails, rl_loaded, storeFile,
                 recruiters, rm_loaded, web>>

\* Time passes.
Tick ==
  /\ now < MaxNow
  /\ bulk.pc # "returned"
  /\ now' = now + 1
  /\ bulk' = IF bulk.pc \in {"loop", "delay"}
               THEN [bulk EXCEPT !.aged = @ \/ AgesOut(Ledger(World), now, now')]
             ELSE bulk
  /\ ret' = NoRet
  /\ UNCHANGED <<config, sentFile, sent_emails, rl_loaded, storeFile, recruiters,
                 rm_loaded, web>>

\* What the environment does during the calls of a bulk run.
BulkIO == {io \in IO : io.tmpl # "bad" /\ io.smtp \in {"ok", "refused", "other"}}

Next ==
  \/ \E id \in ContactIds \cup {StaleId}, dry \in BOOLEAN, io \in IO : SendOne(id, dry, io)
  \/ \E dry \in BOOLEAN : BulkStart(dry)
  \/ \E io \in BulkIO : BulkStep(io)
  \/ BulkDelay
  \/ BulkReturn
  \/ Tick

Spec == Init /\ [][Next]_vars

\* ------------------------------------------------- can_send on every ledger
\* The specification of can_send alone: every ledger of up to MaxCanLedger
\* records with timestamps in 0..MaxT (also later than the clock), every
\* clock value and every pair of limits; the one action evaluates can_send.
RECURSIVE AnyLedgers(_)
AnyLedgers(n) ==
  IF n = 0 THEN {<<>>}
  ELSE LET shorter == AnyLedgers(n - 1)
       IN shorter \cup
          {Append(q, SentRecord(t, StaleId)) :
             q \in {x \in shorter : Len(x) = n - 1}, t \in 0..MaxT}

InitCan ==
  /\ now \in 0..MaxT
  /\ hourly_limit \in 0..MaxLimit
  /\ daily_limit \in 0..MaxLimit
  /\ delay_between_emails = 0
  /\ credentials = TRUE
  /\ sent_emails \in AnyLedgers(MaxCanLedger)
  /\ sentFile = sent_emails
  /\ rl_loaded = TRUE
  /\ storeFile = <<>>
  /\ recruiters = <<>>
  /\ rm_loaded = FALSE
  /\ ret = NoRet
  /\ bulk = BulkIdle
  /\ sessions = NoSessions
  /\ worker = NoWorker
  /\ streams = [st \in Streams |-> StreamClosed]
  /\ requests = 0
  /\ worker2 = NoWorker2
  /\ log = <<>>

CanSendCall ==
  /\ ret = NoRet
  /\ ret' = [op |-> "can_send",
             result |-> can_send(Ledger(World), now, hourly_limit, daily_limit)]
  /\ UNCHANGED <<now, config, sentFile, sent_emails, rl_loaded, storeFile,
                 recruiters, rm_loaded, bulk, web>>

\* A caller asks get_wait_time.
GetWaitTimeCall ==
  /\ ret = NoRet
  /\ ret' = [op |-> "get_wait_time",
             result |-> get_wait_time(Ledger(World), now, hourly_limit, daily_limit),
             allowed |-> can_send(Ledger(World), now, hourly_limit, daily_limit).ok]
  /\ UNCHANGED <<now, config, sentFile, sent_emails, rl_loaded, storeFile,
                 recruiters, rm_loaded, bulk, web>>

\* The caller waits for the duration get_wait_time returned; nothing is sent
\* in the meantime.
Sleep ==
  /\ ret.op = "get_wait_time"
  /\ now' = now + ret.result
  /\ ret' = [op |-> "slept", waited |-> ret.result, allowed |-> ret.allowed]
  /\ UNCHANGED <<config, sentFile, sent_emails, rl_loaded, storeFile,
                 recruiters, rm_loaded, bulk, web>>

NextCan == CanSendCall \/ GetWaitTimeCall \/ Sleep

SpecCan == InitCan /\ [][NextCan]_vars

\* ------------------------------------------------------- the web process
\* What the environment does during a send_email call of the web process:
\* the transmission succeeds or the recipient is refused, the writes complete.
WebIO == {io \in IO : io.tmpl = "ok" /\ io.smtp \in {"ok", "refused"} /\ io.ledIO /\ io.stIO}

\* The Mailer a request gets from get_mailer: nothing loaded yet.
FreshMailer ==
  [led |-> <<>>, loaded |-> FALSE, file |-> sentFile,
   recs |-> <<>>, rloaded |-> FALSE, store |-> storeFile]

\* The loop index after a contact, and where the worker goes.
NextContact(w) ==
  [w EXCEPT !.i = @ + 1,
            !.pc = IF w.i + 1 < Len(w.pending) THEN "progress" ELSE "finish"]

\* POST /bulk/start: the request counts the pending contacts with its own
\* RecruiterManager, creates the session and submits _run_bulk_send with the
\* request's Mailer to the executor.
StartBulkSend(dry) ==
  /\ worker.pc = "none"
  /\ LET pending == get_pending(rm_ensure_loaded(FreshMailer).recs)
     IN IF pending = <<>>
          THEN /\ ret' = [op |-> "start_bulk_send", error |-> "No pending recruiters"]
               /\ UNCHANGED <<sessions, worker>>
        ELSE /\ sessions' = (SessionId :> BulkSendSession(SessionId, Len(pending)))
             /\ worker' = [NoWorker EXCEPT !.pc = "queued", !.session_id = SessionId,
                                           !.dry_run = dry]
             /\ ret' = NoRet
  /\ UNCHANGED <<now, config, sentFile, sent_emails, rl_loaded, storeFile, recruiters,
                 rm_loaded, bulk, streams, requests, worker2, log>>

\* _run_bulk_send, lines 132-142: the worker's own snapshot of the pending
\* contacts.
WorkerStart ==
  /\ worker.pc = "queued"
  /\ LET s1 == rm_ensure_loaded(World)
         pending == get_pending(s1.recs)
         started == Started("bulk", World, pending, worker.dry_run, now)
     IN /\ SetWorld(s1)
        /\ IF pending = <<>>
             THEN /\ sessions' = update_session(sessions, worker.session_id,
                                                [status |-> "completed", current |-> 0])
                  /\ worker' = [worker EXCEPT !.pc = "finished",
                                              !.trace = Append(@, started)]
           ELSE /\ sessions' = update_session(sessions, worker.session_id,
                                              [status |-> "in_progress", current |-> 0])
                /\ worker' = [worker EXCEPT !.pc = "progress", !.pending = pending,
                                            !.trace = Append(@, started)]
  /\ ret' = NoRet
  /\ UNCHANGED <<now, config, bulk, streams, requests, worker2, log>>

\* Lines 145-149: the cursor moves to the contact.
WorkerProgress ==
  /\ worker.pc = "progress"
  /\ sessions' = update_session(sessions, worker.session_id,
                                [current |-> worker.i + 1,
                                 current_email |-> Email(worker.pending[worker.i + 1])])
  /\ worker' = [worker EXCEPT !.pc = "attempt"]
  /\ ret' = NoRet
  /\ UNCHANGED <<now, config, sentFile, sent_emails, rl_loaded, storeFile, recruiters,
                 rm_loaded, bulk, streams, requests, worker2, log>>

\* Lines 151-176: the can_send test and either the skip, which updates the
\* session and continues, or the dispatch, whose failure is appended to the
\* session's errors.
WorkerAttempt(io) ==
  /\ worker.pc = "attempt"
  /\ LET id == worker.pending[worker.i + 1]
         s1 == rl_ensure_loaded(World)
         c == can_send(s1.led, now, hourly_limit, daily_limit)
     IN IF ~c.ok
          THEN /\ SetWorld(s1)
               /\ ret' = NoRet
               /\ log' = log
               /\ sessions' = update_session(sessions, worker.session_id,
                                [skipped |-> worker.skipped + 1,
                                 error |-> [email |-> Email(id),
                                            error |-> <<"Rate limit", c.reason>>]])
               /\ worker' = [NextContact(worker) EXCEPT
                               !.skipped = @ + 1,
                               !.trace = Append(@, Checked("bulk", id, c))]
        ELSE LET out == send_email(s1, Cfg, now, id, worker.dry_run, io)
                    events == <<Checked("bulk", id, c), Dispatched("bulk", id, io)>>
             IN /\ SetWorld(out.st)
                /\ ret' = CallRecord(s1, id, worker.dry_run, io, out, TRUE)
                /\ log' = log \o Accepted("bulk", id, now, out.attempts)
                /\ IF out.ok
                     THEN /\ sessions' = sessions
                          /\ worker' = [worker EXCEPT !.pc = "count", !.sent = @ + 1,
                                                      !.trace = @ \o events]
                   ELSE /\ sessions' = update_session(sessions, worker.session_id,
                                         [error |-> [email |-> Email(id), error |-> out.msg]])
                        /\ worker' = [worker EXCEPT !.pc = "count", !.failed = @ + 1,
                                                    !.trace = @ \o events]
  /\ UNCHANGED <<now, config, bulk, streams, requests, worker2>>

\* A plausible slip: the failed counter is not passed to update_session.
WorkerCount_no_failed ==
  /\ worker.pc = "count"
  /\ sessions' = update_session(sessions, worker.session_id,
                                [sent |-> worker.sent, skipped |-> worker.skipped])
  /\ worker' = IF NeedsDelay(worker.dry_run, worker.i, Len(worker.pending))
                 THEN [worker EXCEPT !.pc = "delay"]
               ELSE NextContact(worker)
  /\ ret' = NoRet
  /\ UNCHANGED <<now, config, sentFile, sent_emails, rl_loaded, storeFile, recruiters,
                 rm_loaded, bulk, streams, requests, worker2, log>>

\* Line 178, then the test of line 181.
WorkerCount ==
  /\ worker.pc = "count"
  /\ sessions' = update_session(sessions, worker.session_id,
                                [sent |-> worker.sent, failed |-> worker.failed,
                                 skipped |-> worker.skipped])
  /\ worker' = IF NeedsDelay(worker.dry_run, worker.i, Len(worker.pending))
                 THEN [worker EXCEPT !.pc = "delay"]
               ELSE NextContact(worker)
  /\ ret' = NoRet
  /\ UNCHANGED <<now, config, sentFile, sent_emails, rl_loaded, storeFile, recruiters,
                 rm_loaded, bulk, streams, requests, worker2, log>>

\* Line 182: wait_for_delay.
WorkerDelay ==
  /\ worker.pc = "delay"
  /\ now + delay_between_emails <= MaxNow
  /\ now' = now + delay_between_emails
  /\ worker' = [NextContact(worker) EXCEPT
                  !.trace = Append(@, Delayed("bulk", delay_between_emails))]
  /\ ret' = NoRet
  /\ UNCHANGED <<config, sentFile, sent_emails, rl_loaded, storeFile, recruiters,
                 rm_loaded, bulk, sessions, streams, requests, worker2, log>>

\* Line 184.
WorkerFinish ==
  /\ worker.pc = "finish"
  /\ sessions' = update_session(sessions, worker.session_id, [status |-> "completed"])
  /\ worker' = [worker EXCEPT !.pc = "finished"]
  /\ ret' = NoRet
  /\ UNCHANGED <<now, config, sentFile, sent_emails, rl_loaded, storeFile, recruiters,
                 rm_loaded, bulk, streams, requests, worker2, log>>

\* get_pending (line 132) or can_send (line 151) raises, e.g. a
\* DataFormatError of RecruiterManager.load on a contact file that cannot be
\* parsed: both calls are outside the try block, the exception ends the task
\* inside the executor and the session is left as it is.
WorkerRaises ==
  /\ worker.pc \in {"queued", "attempt"}
  /\ worker' = [worker EXCEPT !.pc = "raised"]
  /\ ret' = NoRet
  /\ UNCHANGED <<now, config, sentFile, sent_emails, rl_loaded, storeFile, recruiters,
                 rm_loaded, bulk, sessions, streams, requests, worker2, log>>

\* GET /bulk/progress/{session_id}: a stream_progress generator is created.
StreamOpen(st, sid) ==
  /\ streams[st].pc = "closed"
  /\ sid = SessionId => sid \in DOMAIN sessions
  /\ streams' = [streams EXCEPT ![st] =
                   [@ EXCEPT !.pc = "poll", !.session_id = sid,
                             !.opened_at = IF sid \in DOMAIN sessions
                                             THEN Processed(sessions[sid]) ELSE 0]]
  /\ ret' = NoRet
  /\ UNCHANGED <<now, config, sentFile, sent_emails, rl_loaded, storeFile, recruiters,
                 rm_loaded, bulk, sessions, worker, requests, worker2, log>>

\* get_session, then either the "Session not found" event and the end, or
\* the first fields to_dict reads.
StreamPoll(st) ==
  /\ streams[st].pc = "poll"
  /\ streams[st].n < MaxPolls
  /\ LET sid == streams[st].session_id
     IN streams' = [streams EXCEPT ![st] =
          IF sid \notin DOMAIN sessions
            THEN [@ EXCEPT !.pc = "ended", !.n = @ + 1,
                           !.last = [error |-> "Session not found"]]
          ELSE [@ EXCEPT !.pc = "reading",
                         !.half = [session_id |-> sessions[sid].session_id,
                                   total |-> sessions[sid].total,
                                   current |-> sessions[sid].current,
                                   current_email |-> sessions[sid].current_email,
                                   status |-> sessions[sid].status]]]
  /\ ret' = NoRet
  /\ UNCHANGED <<now, config, sentFile, sent_emails, rl_loaded, storeFile, recruiters,
                 rm_loaded, bulk, sessions, worker, requests, worker2, log>>

\* to_dict reads the remaining fields and the snapshot is yielded.
StreamYield(st) ==
  /\ streams[st].pc = "reading"
  /\ LET sid == streams[st].session_id
         h == streams[st].half
         snapshot == [session_id |-> h.session_id, total |-> h.total,
                      current |-> h.current, current_email |-> h.current_email,
                      status |-> h.status,
                      sent |-> sessions[sid].sent, failed |-> sessions[sid].failed,
                      skipped |-> sessions[sid].skipped, errors |-> sessions[sid].errors]
     IN streams' = [streams EXCEPT ![st] =
          [@ EXCEPT !.pc = "yielded", !.half = NoEvent, !.last = snapshot,
                    !.n = @ + 1, !.seen = @ \cup {Processed(snapshot)},
                    !.completed = @ + (IF snapshot.status = "completed" THEN 1 ELSE 0)]]
  /\ ret' = NoRet
  /\ UNCHANGED <<now, config, sentFile, sent_emails, rl_loaded, storeFile, recruiters,
                 rm_loaded, bulk, sessions, worker, requests, worker2, log>>

\* The generator is resumed: it tests the session's status as it is now, and
\* ends or sleeps and polls again.
StreamCheck(st) ==
  /\ streams[st].pc = "yielded"
  /\ streams' = [streams EXCEPT ![st].pc =
                   IF sessions[streams[st].session_id].status \in {"completed", "error"}
                     THEN "ended" ELSE "poll"]
  /\ ret' = NoRet
  /\ UNCHANGED <<now, config, sentFile, sent_emails, rl_loaded, storeFile, recruiters,
                 rm_loaded, bulk, sessions, worker, requests, worker2, log>>

\* POST /send without dry_run: the request's own RecruiterManager finds the
\* contact in the file and the request's own Mailer sends to it.
WebSendOne(id, io) ==
  /\ requests < MaxRequests
  /\ id \in DOMAIN rm_ensure_loaded(FreshMailer).recs
  /\ LET out == send_email(FreshMailer, Cfg, now, id, FALSE, io)
     IN /\ sentFile' = out.st.file
        /\ storeFile' = out.st.store
        /\ ret' = CallRecord(FreshMailer, id, FALSE, io, out, FALSE)
        /\ log' = log \o Accepted("single", id, now, out.attempts)
  /\ requests' = requests + 1
  /\ UNCHANGED <<now, config, sent_emails, rl_loaded, recruiters, rm_loaded, bulk,
                 sessions, worker, streams, worker2>>

\* POST /settings/clear-history: clear_history on the request's own
\* RateLimiter empties the list and writes the file.
ClearHistoryRequest ==
  /\ requests < MaxRequests
  /\ sentFile' = <<>>
  /\ ret' = [op |-> "clear_history"]
  /\ log' = Append(log, Cleared)
  /\ requests' = requests + 1
  /\ UNCHANGED <<now, config, sent_emails, rl_loaded, storeFile, recruiters, rm_loaded,
                 bulk, sessions, worker, streams, worker2>>

\* POST /recruiters/{id}/status: update_status on the request's own
\* RecruiterManager sets the status of the contact and rewrites the file.
UpdateStatusRequest(id, st) ==
  /\ requests < MaxRequests
  /\ LET recs == rm_ensure_loaded(FreshMailer).recs
     IN /\ id \in DOMAIN recs
        /\ storeFile' = [recs EXCEPT ![id].status = st]
  /\ ret' = [op |-> "update_status", id |-> id, status |-> st]
  /\ requests' = requests + 1
  /\ UNCHANGED <<now, config, sentFile, sent_emails, rl_loaded, recruiters, rm_loaded,
                 bulk, sessions, worker, streams, worker2, log>>

\* The web process starts on a data directory with an empty ledger whose
\* contacts are all pending, or none.
InitWeb ==
  /\ Init
  /\ credentials = TRUE
  /\ daily_limit = MaxLimit
  /\ sentFile = <<>>
  /\ \/ \A id \in ContactIds : storeFile[id].status = "pending"
     \/ \A id \in ContactIds : storeFile[id].status = "replied"

Worker ==
  \/ \E dry \in BOOLEAN : StartBulkSend(dry)
  \/ WorkerStart
  \/ WorkerProgress
  \/ \E io \in WebIO : WorkerAttempt(io)
  \/ WorkerCount
  \/ WorkerDelay
  \/ WorkerFinish
  \/ WorkerRaises

\* A bulk session and its observers.
NextSse ==
  \/ Worker
  \/ \E st \in Streams, sid \in {SessionId, UnknownSessionId} : StreamOpen(st, sid)
  \/ \E st \in Streams : StreamPoll(st)
  \/ \E st \in Streams : StreamYield(st)
  \/ \E st \in Streams : StreamCheck(st)

SpecSse == InitWeb /\ [][NextSse]_vars

\* The executor runs a submitted task to its end and the event loop resumes
\* every generator: every step of the worker and of a stream that stays
\* possible is eventually taken.
SpecSseFair ==
  /\ SpecSse
  /\ WF_vars(WorkerStart) /\ WF_vars(WorkerProgress)
  /\ WF_vars(\E io \in WebIO : WorkerAttempt(io))
  /\ WF_vars(WorkerCount) /\ WF_vars(WorkerDelay) /\ WF_vars(WorkerFinish)
  /\ \A st \in Streams :
       WF_vars(StreamPoll(st)) /\ WF_vars(StreamYield(st)) /\ WF_vars(StreamCheck(st))

\* A bulk session and the other requests that write the two files.
NextWeb ==
  \/ Worker
  \/ \E id \in ContactIds, io \in WebIO : WebSendOne(id, io)
  \/ ClearHistoryRequest
  \/ \E id \in ContactIds, st \in Statuses : UpdateStatusRequest(id, st)

SpecWeb == InitWeb /\ [][NextWeb]_vars

\* ------------------------------------------- two bulk operations at a time
\* The objects of the second task's Mailer and the two files, which are the
\* files of the first.
World2 ==
  [led |-> worker2.led, loaded |-> worker2.loaded, file |-> sentFile,
   recs |-> worker2.recs, rloaded |-> worker2.rloaded, store |-> storeFile]

\* The second task with locals w after its Mailer's objects became s.
Task2(w, s) ==
  [w EXCEPT !.led = s.led, !.loaded = s.loaded, !.recs = s.recs, !.rloaded = s.rloaded]

\* POST /bulk/start while the first operation is running: nothing in
\* start_bulk_send looks at the operations in progress.
StartSecondBulkSend(dry) ==
  /\ worker.pc \in {"queued", "progress", "attempt", "count", "delay", "finish"}
  /\ worker2.pc = "none"
  /\ LET pending == get_pending(rm_ensure_loaded(FreshMailer).recs)
     IN IF pending = <<>>
          THEN /\ ret' = [op |-> "start_bulk_send", error |-> "No pending recruiters"]
               /\ UNCHANGED <<sessions, worker2>>
        ELSE /\ sessions' = sessions @@ (SessionId2 :> BulkSendSession(SessionId2, Len(pending)))
             /\ worker2' = [NoWorker2 EXCEPT !.pc = "queued", !.session_id = SessionId2,
                                             !.dry_run = dry]
             /\ ret' = NoRet
  /\ UNCHANGED <<now, config, sentFile, sent_emails, rl_loaded, storeFile, recruiters,
                 rm_loaded, bulk, worker, streams, requests, log>>

\* _run_bulk_send of the second task, lines 132-142.
Worker2Start ==
  /\ worker2.pc = "queued"
  /\ LET s1 == rm_ensure_loaded(World2)
         pending == get_pending(s1.recs)
         started == Started("bulk2", World2, pending, worker2.dry_run, now)
     IN /\ IF pending = <<>>
             THEN /\ sessions' = update_session(sessions, worker2.session_id,
                                                [status |-> "completed", current |-> 0])
                  /\ worker2' = [Task2(worker2, s1) EXCEPT !.pc = "finished",
                                                           !.trace = Append(@, started)]
           ELSE /\ sessions' = update_session(sessions, worker2.session_id,
                                              [status |-> "in_progress", current |-> 0])
                /\ worker2' = [Task2(worker2, s1) EXCEPT !.pc = "progress",
                                                         !.pending = pending,
                                                         !.trace = Append(@, started)]
  /\ ret' = NoRet
  /\ UNCHANGED <<now, config, sentFile, sent_emails, rl_loaded, storeFile, recruiters,
                 rm_loaded, bulk, worker, streams, requests, log>>

\* Lines 145-149.
Worker2Progress ==
  /\ worker2.pc = "progress"
  /\ sessions' = update_session(sessions, worker2.session_id,
                                [current |-> worker2.i + 1,
                                 current_email |-> Email(worker2.pending[worker2.i + 1])])
  /\ worker2' = [worker2 EXCEPT !.pc = "attempt"]
  /\ ret' = NoRet
  /\ UNCHANGED <<now, config, sentFile, sent_emails, rl_loaded, storeFile, recruiters,
                 rm_loaded, bulk, worker, streams, requests, log>>

\* Lines 151-176.
Worker2Attempt(io) ==
  /\ worker2.pc = "attempt"
  /\ LET id == worker2.pending[worker2.i + 1]
         s1 == rl_ensure_loaded(World2)
         c == can_send(s1.led, now, hourly_limit, daily_limit)
     IN IF ~c.ok
          THEN /\ ret' = NoRet
               /\ log' = log
               /\ sessions' = update_session(sessions, worker2.session_id,
                                [skipped |-> worker2.skipped + 1,
                                 error |-> [email |-> Email(id),
                                            error |-> <<"Rate limit", c.reason>>]])
               /\ worker2' = [NextContact(Task2(worker2, s1)) EXCEPT
                                !.skipped = @ + 1,
                                !.trace = Append(@, Checked("bulk2", id, c))]
               /\ UNCHANGED <<sentFile, storeFile>>
        ELSE LET out == send_email(s1, Cfg, now, id, worker2.dry_run, io)
                 events == <<Checked("bulk2", id, c), Dispatched("bulk2", id, io)>>
             IN /\ sentFile' = out.st.file
                /\ storeFile' = out.st.store
                /\ ret' = CallRecord(s1, id, worker2.dry_run, io, out, TRUE)
                /\ log' = log \o Accepted("bulk2", id, now, out.attempts)
                /\ IF out.ok
                     THEN /\ sessions' = sessions
                          /\ worker2' = [Task2(worker2, out.st) EXCEPT
                                           !.pc = "count", !.sent = @ + 1,
                                           !.trace = @ \o events]
                   ELSE /\ sessions' = update_session(sessions, worker2.session_id,
                                         [error |-> [email |-> Email(id), error |-> out.msg]])
                        /\ worker2' = [Task2(worker2, out.st) EXCEPT
                                         !.pc = "count", !.failed = @ + 1,
                                         !.trace = @ \o events]
  /\ UNCHANGED <<now, config, sent_emails, rl_loaded, recruiters, rm_loaded, bulk,
                 worker, streams, requests>>

\* Line 178, then the test of line 181.
Worker2Count ==
  /\ worker2.pc = "count"
  /\ sessions' = update_session(sessions, worker2.session_id,
                                [sent |-> worker2.sent, failed |-> worker2.failed,
                                 skipped |-> worker2.skipped])
  /\ worker2' = IF NeedsDelay(worker2.dry_run, worker2.i, Len(worker2.pending))
                  THEN [worker2 EXCEPT !.pc = "delay"]
                ELSE NextContact(worker2)
  /\ ret' = NoRet
  /\ UNCHANGED <<now, config, sentFile, sent_emails, rl_loaded, storeFile, recruiters,
                 rm_loaded, bulk, worker, streams, requests, log>>

\* Line 182.
Worker2Delay ==
  /\ worker2.pc = "delay"
  /\ now + delay_between_emails <= MaxNow
  /\ now' = now + delay_between_emails
  /\ worker2' = [NextContact(worker2) EXCEPT
                   !.trace = Append(@, Delayed("bulk2", delay_between_emails))]
  /\ ret' = NoRet
  /\ UNCHANGED <<config, sentFile, sent_emails, rl_loaded, storeFile, recruiters,
                 rm_loaded, bulk, sessions, worker, streams, requests, log>>

\* Line 184.
Worker2Finish ==
  /\ worker2.pc = "finish"
  /\ sessions' = update_session(sessions, worker2.session_id, [status |-> "completed"])
  /\ worker2' = [worker2 EXCEPT !.pc = "finished"]
  /\ ret' = NoRet
  /\ UNCHANGED <<now, config, sentFile, sent_emails, rl_loaded, storeFile, recruiters,
                 rm_loaded, bulk, worker, streams, requests, log>>

Worker2 ==
  \/ \E dry \in BOOLEAN : StartSecondBulkSend(dry)
  \/ Worker2Start
  \/ Worker2Progress
  \/ \E io \in WebIO : Worker2Attempt(io)
  \/ Worker2Count
  \/ Worker2Delay
  \/ Worker2Finish

\* Two bulk operations on the worker pool, started on pending contacts.
InitPool ==
  /\ InitWeb
  /\ \A id \in ContactIds : storeFile[id].status = "pending"

NextPool == Worker \/ Worker2

SpecPool == InitPool /\ [][NextPool]_vars

\* ================================================================== claims
\* What the last step's send_email call did.
Called == ret.op = "send_email"

Transmitted == \E k \in 1..Len(ret.attempts) : ret.attempts[k].outcome = "ok"

LedgerUntouched == Ledger(World) = ret.pre.ledger /\ sentFile = ret.pre.file

ContactsUntouched == Contacts(World) = ret.pre.contacts /\ storeFile = ret.pre.store

RecordAppended ==
  /\ Ledger(World) = Append(ret.pre.ledger, SentRecord(ret.at, ret.id))
  /\ sentFile = Ledger(World)

MarkedSent ==
  /\ ret.id \in DOMAIN Contacts(World)
  /\ Contacts(World)[ret.id] = Contact("sent", ret.at)
  /\ ret.id \in DOMAIN storeFile
  /\ storeFile[ret.id] = Contact("sent", ret.at)

\* C1: every send_email call either transmits the message, appends the ledger
\* record and marks the contact sent (status and last_contacted), or does none
\* of the three, whichever step fails.
C1_AllOrNothing ==
  Called =>
    \/ Transmitted /\ RecordAppended /\ MarkedSent
    \/ ~Transmitted /\ LedgerUntouched /\ ContactsUntouched

\* C2: when the SMTP transmission of a send_email call fails, the call raises,
\* the transmission was attempted exactly once, and the ledger (memory and
\* file) and the contacts (memory and file) are what they were before the call.
C2_TransmissionFailure ==
  (Called /\ \E k \in 1..Len(ret.attempts) : ret.attempts[k].outcome # "ok") =>
    /\ ~ret.ok
    /\ ret.exc \in {"SMTPConnectionError", "EmailError"}
    /\ Len(ret.attempts) = 1
    /\ LedgerUntouched
    /\ ContactsUntouched

C2_Witness ==
  /\ Called
  /\ ret.attempts = <<[to |-> Email(ret.id), outcome |-> "refused"]>>
  /\ ret.exc = "EmailError"
  /\ ret.pre.ledger # <<>>

\* The counts of the claim, taken over the positions of the ledger.
CountToday ==
  Cardinality({k \in 1..Len(sent_emails) :
                 DateOf(sent_emails[k].timestamp) = DateOf(now)})

CountLastHour ==
  Cardinality({k \in 1..Len(sent_emails) : sent_emails[k].timestamp > now - HourLen})

\* C3: can_send refuses with the daily reason exactly when the number of
\* records dated today is >= max_emails_per_day, otherwise with the hourly
\* reason exactly when the number of records later than now - 1h is >=
\* emails_per_hour, otherwise allows; a count equal to the limit is refused and
\* the daily reason wins when both limits are reached.
C3_CanSend ==
  ret.op = "can_send" =>
    /\ ret.result.ok = (CountToday < daily_limit /\ CountLastHour < hourly_limit)
    /\ CountToday >= daily_limit =>
         ret.result.reason = <<"Daily limit reached", CountToday, daily_limit>>
    /\ (CountToday < daily_limit /\ CountLastHour >= hourly_limit) =>
         ret.result.reason = <<"Hourly limit reached", CountLastHour, hourly_limit>>
    /\ ret.result.ok => ret.result.reason = <<"OK">>

C3_Witness ==
  /\ ret.op = "can_send"
  /\ CountToday = daily_limit
  /\ CountLastHour = hourly_limit
  /\ daily_limit > 0
  /\ ret.result = [ok |-> FALSE,
                   reason |-> <<"Daily limit reached", CountToday, daily_limit>>]

\* C4: when can_send refuses at the call, send_email raises RateLimitError
\* with can_send's reason, whatever the template and the credentials are, and
\* nothing is transmitted, written or changed.
C4_RateLimitFirst ==
  (Called /\ ~ret.gate.ok) =>
    /\ ret.exc = "RateLimitError"
    /\ ret.msg = <<"Rate limit exceeded", ret.gate.reason>>
    /\ ret.attempts = <<>>
    /\ LedgerUntouched
    /\ ContactsUntouched

C4_Witness ==
  /\ Called
  /\ ~ret.gate.ok
  /\ ret.io.tmpl = "missing"
  /\ ~credentials
  /\ ret.exc = "RateLimitError"

\* What a bulk run has transmitted so far.
BulkSmtpEvents == SelectSeq(bulk.trace, LAMBDA e : e[1] = "smtp")

BulkRunning == bulk.pc \in {"loop", "delay", "done"}

\* C5: a dry-run send_email that returns, returns (True, preview), transmits
\* nothing and leaves the ledger and every contact unchanged; a dry-run bulk
\* run transmits nothing and leaves the ledger, every contact and the pending
\* set as they were when it started.
C5_DryRunFrame ==
  /\ (Called /\ ret.dry /\ ret.exc = "none") =>
       /\ ret.ok
       /\ ret.msg = <<"DRY RUN - Would send", Email(ret.id), Subject(ret.id)>>
       /\ ret.attempts = <<>>
       /\ LedgerUntouched
       /\ ContactsUntouched
  /\ (BulkRunning /\ bulk.dry_run) =>
       /\ BulkSmtpEvents = <<>>
       /\ Ledger(World) = bulk.pre.ledger
       /\ sentFile = bulk.pre.file
       /\ Contacts(World) = bulk.pre.contacts
       /\ storeFile = bulk.pre.store
       /\ get_pending(Contacts(World)) = bulk.pending

C5_Witness ==
  /\ bulk.pc = "done"
  /\ bulk.dry_run
  /\ bulk.results.sent = NumContacts
  /\ Called /\ ret.dry /\ ret.ok

\* C6 as stated: a dry-run send_email with an existing template that renders
\* returns (True, preview) for every ledger state, whatever the counts are
\* relative to the limits.
C6_DryRunAlwaysSucceeds ==
  (Called /\ ret.dry /\ ret.io.tmpl = "ok") =>
    /\ ret.ok
    /\ ret.msg = <<"DRY RUN - Would send", Email(ret.id), Subject(ret.id)>>

\* C6 amended: a dry-run send_email with a template that renders returns
\* (True, preview) whenever can_send allows a send at the call, with or
\* without credentials; when can_send refuses, it raises RateLimitError.
C6_DryRunSucceedsWithinQuota ==
  (Called /\ ret.dry /\ ret.io.tmpl = "ok") =>
    /\ ret.gate.ok =>
         /\ ret.ok
         /\ ret.msg = <<"DRY RUN - Would send", Email(ret.id), Subject(ret.id)>>
    /\ ~ret.gate.ok => ~ret.ok /\ ret.exc = "RateLimitError"

C6_Witness ==
  /\ Called /\ ret.dry /\ ret.io.tmpl = "ok"
  /\ ret.gate.ok
  /\ ~credentials
  /\ ret.ok

\* ------------------------------------------------ the events of a bulk run
\* bulk.trace holds, per contact, <<"progress", index, total, id>>, then
\* either <<"skip", id, reason>> or <<"send_email", id>>, the <<"smtp", to,
\* outcome>> of each transmission and <<"outcome", id, exc, msg>>; and
\* <<"delay", seconds>> for each wait_for_delay call.
Events(kind) == SelectSeq(bulk.trace, LAMBDA e : e[1] = kind)

FailureEvents == SelectSeq(bulk.trace, LAMBDA e : e[1] = "outcome" /\ e[3] # "none")

ProcessedEvents == SelectSeq(bulk.trace, LAMBDA e : e[1] \in {"skip", "outcome"})

Total == Len(bulk.pending)

\* Every dispatched contact was transmitted to, successfully.
EveryTransmissionSucceeded ==
  /\ Len(Events("smtp")) = Len(Events("send_email"))
  /\ \A k \in 1..Len(Events("smtp")) : Events("smtp")[k][3] = "ok"

\* C7: in a non-dry-run bulk run over n pending contacts in which every
\* transmission succeeds and no record ages out, with q sends left at the
\* start: sent = min(n, q), skipped = n - min(n, q), failed = 0, and errors
\* holds one "Rate limit" entry per skipped contact, in order; no skipped
\* contact is dispatched or followed by a delay.
C7_QuotaSummary ==
  (bulk.pc = "done" /\ ~bulk.dry_run /\ ~bulk.aged /\ EveryTransmissionSucceeded) =>
    LET m == Min(Total, bulk.q0)
    IN /\ bulk.results.sent = m
       /\ bulk.results.skipped = Total - m
       /\ bulk.results.failed = 0
       /\ Len(bulk.results.errors) = Total - m
       /\ \A k \in 1..(Total - m) :
            /\ bulk.results.errors[k].email = Email(bulk.pending[m + k])
            /\ bulk.results.errors[k].error[1] = "Rate limit"
       /\ \A p \in 1..Len(bulk.trace) :
            bulk.trace[p][1] = "skip" =>
              /\ \A r \in 1..Len(bulk.trace) :
                   bulk.trace[r][1] = "send_email" => bulk.trace[r][2] # bulk.trace[p][2]
              /\ p < Len(bulk.trace) => bulk.trace[p + 1][1] = "progress"

\* C8: in a bulk run each failed send_email adds one to failed and one
\* {email, error} entry, and stops no later contact: at the end every contact
\* of the snapshot has been processed; with 3 contacts of which only the 2nd
\* fails (refused) and none is skipped, contacts 1 and 3 are transmitted to
\* and the summary is sent = 2, failed = 1.
C8_FailureIsolation ==
  BulkRunning =>
    /\ bulk.results.failed = Len(FailureEvents)
    /\ SelectSeq(bulk.results.errors, LAMBDA x : x.error[1] # "Rate limit")
         = [k \in 1..Len(FailureEvents) |->
              [email |-> Email(FailureEvents[k][2]), error |-> FailureEvents[k][4]]]
    /\ bulk.pc = "done" =>
         /\ Len(ProcessedEvents) = Total
         /\ \A k \in 1..Total : ProcessedEvents[k][2] = bulk.pending[k]
    /\ ( /\ bulk.pc = "done" /\ ~bulk.dry_run /\ Total = 3
         /\ Events("skip") = <<>>
         /\ Len(FailureEvents) = 1
         /\ FailureEvents[1][2] = bulk.pending[2]
         /\ FailureEvents[1][4] = <<"Recipient refused", Email(bulk.pending[2])>> ) =>
           /\ \E p \in 1..Len(bulk.trace) :
                bulk.trace[p] = <<"smtp", Email(bulk.pending[1]), "ok">>
           /\ \E p \in 1..Len(bulk.trace) :
                bulk.trace[p] = <<"smtp", Email(bulk.pending[3]), "ok">>
           /\ bulk.results.sent = 2
           /\ bulk.results.failed = 1

C8_Witness ==
  /\ bulk.pc = "done" /\ ~bulk.dry_run /\ Total = 3
  /\ Events("skip") = <<>>
  /\ Len(FailureEvents) = 1
  /\ FailureEvents[1][4] = <<"Recipient refused", Email(bulk.pending[2])>>
  /\ bulk.results.sent = 2

\* C9: the loop walks the snapshot of the contacts pending at call time: one
\* progress callback per contact, in order, with indices 1..total, each right
\* before that contact is attempted; after k contacts sent + failed + skipped
\* = k; at the end total = size of the snapshot = sent + failed + skipped and
\* len(errors) = failed + skipped.
C9_WholeSnapshot ==
  BulkRunning =>
    LET done == Len(ProcessedEvents)
        res == bulk.results
    IN /\ bulk.pending = get_pending(bulk.pre.contacts)
       /\ res.total = Total
       /\ Events("progress") = [k \in 1..done |-> <<"progress", k, Total, bulk.pending[k]>>]
       /\ \A p \in 1..Len(bulk.trace) :
            /\ bulk.trace[p][1] = "progress" =>
                 /\ p < Len(bulk.trace)
                 /\ bulk.trace[p + 1][1] \in {"skip", "send_email"}
                 /\ bulk.trace[p + 1][2] = bulk.trace[p][4]
            /\ bulk.trace[p][1] \in {"skip", "send_email"} =>
                 p > 1 /\ bulk.trace[p - 1][1] = "progress"
       /\ res.sent + res.failed + res.skipped = done
       /\ done = (IF bulk.pc = "delay" THEN bulk.i + 1 ELSE bulk.i)
       /\ Len(res.errors) = res.failed + res.skipped
       /\ bulk.pc = "done" => done = Total /\ res.sent + res.failed + res.skipped = res.total

C9_Witness ==
  /\ bulk.pc = "done"
  /\ Total = NumContacts
  /\ bulk.results.sent > 0 /\ bulk.results.failed > 0 /\ bulk.results.skipped > 0

\* C10: the delay is applied once after each dispatched contact (sent or
\* failed) that is not the last of the snapshot, never after a skipped
\* contact, never after the last contact and never in a dry run; so two
\* transmissions of one bulk run are separated by a delay.
C10_DelayPlacement ==
  BulkRunning =>
    LET T == bulk.trace
    IN /\ \A p \in 1..Len(T) :
            T[p][1] = "delay" =>
              /\ ~bulk.dry_run
              /\ p > 1 /\ T[p - 1][1] = "outcome"
              /\ T[p - 1][2] # bulk.pending[Total]
              /\ T[p][2] = delay_between_emails
       /\ \A p \in 1..Len(T) :
            (T[p][1] = "outcome" /\ ~bulk.dry_run /\ T[p][2] # bulk.pending[Total]) =>
              IF p < Len(T) THEN T[p + 1][1] = "delay" ELSE bulk.pc = "delay"
       /\ \A p \in 1..Len(T) :
            (T[p][1] = "outcome" /\ (bulk.dry_run \/ T[p][2] = bulk.pending[Total])) =>
              IF p < Len(T) THEN T[p + 1][1] = "progress" ELSE bulk.pc # "delay"
       /\ \A p \in 1..Len(T) :
            T[p][1] \in {"skip", "delay"} =>
              IF p < Len(T) THEN T[p + 1][1] = "progress" ELSE bulk.pc # "delay"
       /\ \A p, r \in 1..Len(T) :
            (p < r /\ T[p][1] = "smtp" /\ T[r][1] = "smtp") =>
              \E d \in (p + 1)..(r - 1) : T[d][1] = "delay"

C10_Witness ==
  /\ bulk.pc = "done" /\ ~bulk.dry_run
  /\ Total = NumContacts
  /\ delay_between_emails > 0
  /\ Len(Events("smtp")) = 2
  /\ Len(Events("delay")) = 2
  /\ bulk.results.skipped = 1

\* The records of the trailing hour, by position, and the earliest timestamp
\* among them.
WindowPositions == {k \in 1..Len(sent_emails) : sent_emails[k].timestamp > now - HourLen}

OldestStamp ==
  CHOOSE ts \in {sent_emails[k].timestamp : k \in WindowPositions} :
    \A k \in WindowPositions : ts <= sent_emails[k].timestamp

NextMidnight == CHOOSE m \in (now + 1)..(now + DayLen) : m % DayLen = 0

C15_RecoverableByWaiting ==
  ( /\ ret.op = "slept" /\ ~ret.allowed
    /\ hourly_limit >= 1 /\ daily_limit >= 1
    /\ \A k \in 1..Len(sent_emails) : sent_emails[k].timestamp <= now - ret.waited ) =>
    can_send(Ledger(World), now, hourly_limit, daily_limit).ok

\* C12: record_sent adds exactly one record at the end of the in-memory
\* sequence and rewrites the whole file; when the write fails the call fails
\* (send_email re-raises it as EmailError), the file is as before and the
\* in-memory sequence is the old one followed by the new record, once.
C12_RecordSent ==
  (Called /\ Transmitted) =>
    /\ Ledger(World) = Append(ret.pre.ledger, SentRecord(ret.at, ret.id))
    /\ ret.io.ledIO => sentFile = Ledger(World)
    /\ ~ret.io.ledIO =>
         /\ ~ret.ok
         /\ ret.exc = "EmailError"
         /\ sentFile = ret.pre.file

C12_Witness ==
  /\ Called /\ Transmitted
  /\ ~ret.io.ledIO
  /\ ret.pre.ledger # <<>>
  /\ Len(sent_emails) = Len(ret.pre.ledger) + 1
  /\ sentFile = ret.pre.file

\* What a new RateLimiter loads from the ledger file.
FreshLoad == rl_ensure_loaded([World EXCEPT !.led = <<>>, !.loaded = FALSE]).led

\* The transmissions that succeeded, in order: send_email called record_sent
\* after each.
OkEvents ==
  IF Called /\ ~ret.inBulk
    THEN SelectSeq(AttemptEvents(ret.attempts), LAMBDA e : e[3] = "ok")
  ELSE SelectSeq(bulk.trace, LAMBDA e : e[1] = "smtp" /\ e[3] = "ok")

\* The write of the latest record_sent call completed.
LastRecordSentCompleted ==
  /\ (Called /\ ~ret.inBulk /\ Transmitted) => ret.io.ledIO
  /\ LET T == bulk.trace
         P == {p \in 1..Len(T) : T[p][1] = "smtp" /\ T[p][3] = "ok"}
     IN P # {} =>
          LET last == CHOOSE p \in P : \A r \in P : r <= p
          IN T[last + 1][4] # <<"Failed to send email", "sent_log">>

\* The ledger the RateLimiter loaded.
LoadedLedger ==
  IF Called /\ ~ret.inBulk THEN ret.pre.ledger
  ELSE IF rl_loaded THEN bulk.pre.ledger
  ELSE sentFile

C16_SoftGateOnly ==
  /\ (Called /\ ret.inBulk) => ret.gate.ok /\ ret.exc # "RateLimitError"
  /\ BulkRunning =>
       /\ \A p \in 1..Len(bulk.trace) :
            bulk.trace[p][1] = "outcome" => bulk.trace[p][3] # "RateLimitError"
       /\ \A k \in 1..Len(bulk.results.errors) :
            bulk.results.errors[k].error[1] # "Rate limit exceeded"
       /\ bulk.results.skipped = Len(Events("skip"))
       /\ SelectSeq(bulk.results.errors, LAMBDA x : x.error[1] = "Rate limit")
            = [k \in 1..Len(Events("skip")) |->
                 [email |-> Email(Events("skip")[k][2]),
                  error |-> <<"Rate limit", Events("skip")[k][3]>>]]
       /\ bulk.results.failed = Len(FailureEvents)

C16_Witness ==
  /\ bulk.pc = "done" /\ ~bulk.dry_run
  /\ bulk.results.sent = 1
  /\ bulk.results.skipped = 2
  /\ Called /\ ret.inBulk /\ ret.gate.ok

\* The kind a caller reads off a raised exception: its class and the leading
\* words of its message.
Kind(exc, msg) ==
  IF exc = "SMTPConnectionError" /\ msg[1] = "Authentication failed"
    THEN "AuthenticationFailed"
  ELSE IF exc = "EmailError" /\ msg[1] = "Recipient refused" THEN "RecipientRefused"
  ELSE IF exc = "EmailError" /\ msg[1] \in {"SMTP error", "Failed to send email"}
    THEN "TransportError"
  ELSE "none"

RECURSIVE IsSubseq(_, _)
IsSubseq(a, b) ==
  IF a = <<>> THEN TRUE
  ELSE IF b = <<>> THEN FALSE
  ELSE IF Head(a) = Head(b) THEN IsSubseq(Tail(a), Tail(b))
  ELSE IsSubseq(a, Tail(b))

\* C11: no step other than a clear_history removes a record from the ledger
\* file or changes the order of its records: the file before the step is a
\* subsequence of the file after it.
C11_AppendOnly ==
  [][ret'.op # "clear_history" => IsSubseq(sentFile, sentFile')]_vars

IsSnapshot(e) == "current" \in DOMAIN e

\* C17: the current of a session moves from 0 up to the number of contacts
\* in steps of one and its sent + failed + skipped never decreases; and of any
\* two successive snapshots a stream yields, the later has no smaller current
\* and no smaller sent + failed + skipped.
C17_MonotoneProgress ==
  [][ /\ \A sid \in DOMAIN sessions :
           /\ sid \in DOMAIN sessions'
           /\ sessions'[sid].current \in
                {sessions[sid].current, sessions[sid].current + 1}
           /\ sessions'[sid].current <= Len(worker'.pending)
           /\ Processed(sessions'[sid]) >= Processed(sessions[sid])
      /\ \A st \in Streams :
           (IsSnapshot(streams[st].last) /\ IsSnapshot(streams'[st].last)) =>
             /\ streams'[st].last.current >= streams[st].last.current
             /\ Processed(streams'[st].last) >= Processed(streams[st].last) ]_vars

C17_Witness ==
  \E st \in Streams :
    /\ streams[st].n = 3
    /\ IsSnapshot(streams[st].last)
    /\ streams[st].last.current = NumContacts
    /\ streams[st].last.sent > 0
    /\ streams[st].last.skipped > 0
    /\ Cardinality(streams[st].seen) = 3

\* C18: a stream on an existing session that has ended has yielded exactly
\* one snapshot with status completed, as its last event, and a snapshot
\* after each contact the worker processed since the stream was requested; a
\* stream on an unknown id has yielded the one "Session not found" event.
C18_StreamDelivery ==
  \A st \in Streams :
    streams[st].pc = "ended" =>
      IF streams[st].session_id \in DOMAIN sessions
        THEN /\ streams[st].completed = 1
             /\ streams[st].last.status = "completed"
             /\ \A k \in (streams[st].opened_at + 1)..Len(worker.pending) :
                  k \in streams[st].seen
      ELSE /\ streams[st].n = 1
           /\ streams[st].last = [error |-> "Session not found"]

\* C20: every rewrite of the ledger file and of the contact file by a
\* dispatch is based on a copy that equals the file at that moment: nothing
\* else has rewritten the file since the dispatching Mailer read it.
C20_SerialRewrites ==
  (Called /\ Transmitted) =>
    /\ ret.pre.ledger = ret.pre.file
    /\ ret.pre.contacts = ret.pre.store

\* The days on which a record of the ledger is stamped.
DaysOf(led) == {DateOf(led[k].timestamp) : k \in 1..Len(led)}

OnDay(led, d) == Len(SelectSeq(led, LAMBDA e : DateOf(e.timestamp) = d))

\* The ledger holds at most hl records in the hour that ends at t and at
\* most dl records on any calendar day.
WithinQuotas(led, t, hl, dl) ==
  /\ get_emails_last_hour(led, t) <= hl
  /\ \A d \in DaysOf(led) : OnDay(led, d) <= dl

\* C23: with fixed limits, a ledger that is within both quotas is still
\* within both quotas after any step of a single Mailer (a send_email call, a
\* step of send_to_all_pending, time passing): the records of the trailing
\* hour never exceed emails_per_hour and the records of any calendar day
\* never exceed max_emails_per_day, in the list in memory and in the file.
C23_QuotaSafety ==
  [][(/\ WithinQuotas(Ledger(World), now, hourly_limit, daily_limit)
      /\ WithinQuotas(sentFile, now, hourly_limit, daily_limit))
     => (/\ WithinQuotas(Ledger(World)', now', hourly_limit', daily_limit')
         /\ WithinQuotas(sentFile', now', hourly_limit', daily_limit'))]_vars

\* A transmission has just filled the hourly quota, and the ledger is within
\* both quotas.
C23_Witness ==
  /\ Called /\ Transmitted
  /\ get_emails_last_hour(Ledger(World), now) = hourly_limit
  /\ WithinQuotas(Ledger(World), now, hourly_limit, daily_limit)

\* C22: the counts a RateLimiter evaluates the quotas with at a send_email
\* call (the records of the trailing hour and of today in the list it holds)
\* equal the counts computed from the contents of the ledger file at that
\* moment, also when another writer changed the file after the limiter's
\* first access.
C22_QuotaFromFile ==
  Called =>
    /\ get_emails_last_hour(ret.pre.ledger, ret.at) = get_emails_last_hour(ret.pre.file, ret.at)
    /\ get_emails_today(ret.pre.ledger, ret.at) = get_emails_today(ret.pre.file, ret.at)

\* The positions of the log at which the server accepted a message to id.
SentTo(id) == {k \in 1..Len(log) : log[k].kind = "smtp" /\ log[k].id = id}

\* C25: when a second bulk operation is started while the first is running,
\* every contact is transmitted to at most once in total, and a transmission
\* never goes to a contact the contact file already holds as sent.
C25_NoDoubleSend ==
  /\ \A id \in ContactIds : Cardinality(SentTo(id)) <= 1
  /\ (Called /\ Transmitted) => ret.pre.store[ret.id].status # "sent"

\* The messages the server accepted, as the ledger that records them all.
Transmissions ==
  LET accepted == SelectSeq(log, LAMBDA e : e.kind = "smtp")
  IN [k \in 1..Len(accepted) |-> SentRecord(accepted[k].at, accepted[k].id)]

\* C24: when two bulk operations run at the same time, each through its own
\* Mailer and RateLimiter, the messages transmitted within the trailing hour
\* never exceed emails_per_hour and the messages transmitted on a calendar
\* day never exceed max_emails_per_day.
C24_QuotaSafetyConcurrent ==
  WithinQuotas(Transmissions, now, hourly_limit, daily_limit)

\* C21: the ledger file holds the records of the completed sends in the
\* order in which they completed, none dropped or positioned after a later
\* one, with non-decreasing timestamps, also when two bulk operations run at
\* the same time.
C21_CompletionOrder ==
  /\ sentFile = Transmissions
  /\ \A k \in 1..(Len(sentFile) - 1) : sentFile[k].timestamp <= sentFile[k + 1].timestamp

\* The session of the bulk operation has a terminal status.
Terminal ==
  /\ SessionId \in DOMAIN sessions
  /\ sessions[SessionId].status \in {"completed", "error"}

\* C26: every bulk session start_bulk_send created eventually has a terminal
\* status, completed or error, on every path of the worker, also when
\* get_pending or can_send raises.
C26_SessionTerminates == (SessionId \in DOMAIN sessions) ~> Terminal

\* C27: a completed session's counters agree with the total fixed when the
\* session was created (current = total, sent + failed + skipped = total,
\* len(errors) = failed + skipped), and before completion
\* sent + failed + skipped <= current <= total.
C27_CountersMatchTotal ==
  \A sid \in DOMAIN sessions :
    LET x == sessions[sid]
    IN IF x.status = "completed"
         THEN /\ x.current = x.total
              /\ Processed(x) = x.total
              /\ Len(x.errors) = x.failed + x.skipped
       ELSE Processed(x) <= x.current /\ x.current <= x.total

\* The position of the last clear_history in the log, 0 when there is none.
LastClear ==
  LET clears == {k \in 1..Len(log) : log[k].kind = "clear_history"}
  IN IF clears = {} THEN 0 ELSE CHOOSE k \in clears : \A j \in clears : j <= k

\* The records of the messages the server accepted after the last
\* clear_history.
SentAfterClear ==
  {SentRecord(log[k].at, log[k].id) : k \in {j \in (LastClear + 1)..Len(log) : log[j].kind = "smtp"}}

\* C28: once clear_history has completed, the ledger file holds only records
\* of sends made after it, also when a bulk operation that started before
\* the clear appends its next record: no record from before the clear
\* reappears.
C28_ClearIsDurable ==
  LastClear > 0 => \A k \in 1..Len(sentFile) : sentFile[k] \in SentAfterClear

\* C29: a dispatch of the bulk operation that marks its contact sent changes
\* nothing in the contact file but the status and last_contacted of that
\* contact: what another RecruiterManager wrote to the file while the
\* operation was in flight is still there after the mark_sent.
C29_StoreChangesSurvive ==
  (Called /\ ret.inBulk /\ ret.ok /\ Transmitted) =>
    storeFile = [ret.pre.store EXCEPT ![ret.id] = Contact("sent", ret.at)]

\* What the environment did during the dispatch of each contact of the
\* worker's snapshot, from the worker's trace; a contact the worker did not
\* dispatch gets a send that goes well.
IosOf(trace, pending) ==
  [k \in 1..Len(pending) |->
     LET hits == {j \in 1..Len(trace) :
                    trace[j].kind = "send_email" /\ trace[j].id = pending[k]}
     IN IF hits = {}
          THEN [tmpl |-> "ok", smtp |-> "ok", ledIO |-> TRUE, stIO |-> TRUE]
        ELSE trace[CHOOSE j \in hits : TRUE].io]

\* send_to_all_pending on the objects, clock, dry-run flag and transport
\* outcomes of the finished worker.
LibraryRun ==
  LET start == worker.trace[1]
  IN send_to_all_pending(start.pre, Cfg, delay_between_emails, start.at, start.dry_run,
                         IosOf(worker.trace, start.pending))

\* C30: for the same pending snapshot, ledger, dry-run flag and transport
\* outcomes, a finished _run_bulk_send has made the same sequence of
\* can_send checks, dispatches and delays as send_to_all_pending, and its
\* session's sent, failed, skipped and errors equal the summary that
\* send_to_all_pending returns.
C30_WorkerRefinesLibrary ==
  worker.pc = "finished" =>
    LET lib == LibraryRun
        x == sessions[SessionId]
    IN /\ Tail(worker.trace) = [k \in 1..Len(lib.trace) |-> [lib.trace[k] EXCEPT !.op = "bulk"]]
       /\ x.sent = lib.results.sent
       /\ x.failed = lib.results.failed
       /\ x.skipped = lib.results.skipped
       /\ x.errors = lib.results.errors

\* A finished worker that sent to one contact, failed on one and skipped one.
C30_Witness ==
  /\ worker.pc = "finished"
  /\ sessions[SessionId].sent = 1
  /\ sessions[SessionId].failed = 1
  /\ sessions[SessionId].skipped = 1
  /\ LibraryRun.results.sent = 1

====
